---- MODULE Spec2Model ----
(***************************************************************************)
(* The asynchronous evaluation pipeline of cv-evaluation: one evaluation   *)
(* request (a Job row and its EvaluationResult row), the BullMQ flow of    *)
(* two child tasks (cv-evaluation, project-evaluation) and one parent task *)
(* (overall-scoring), the stage code of EvaluationsService and the status  *)
(* lookup.  Rows of different jobs share no state (every read and write is *)
(* keyed by jobId), so the model follows one job.                          *)
(*                                                                         *)
(* Units: cvMatchRate is held in hundredths (80 is 0.80), projectScore in  *)
(* tenths (42 is 4.2), the weighted score in hundredths of a percent       *)
(* (8000 is 80.00), the running weighted sum in thousandths.  Rubric       *)
(* weights are held in tenths of a percent (333 is 33.3).                  *)
(*                                                                         *)
(* Spec is the pipeline, in which a generation call either returns or      *)
(* raises.  SpecLLM is the retry loop around one generation call           *)
(* (llm.util.ts) by itself, for every error the call may throw.            *)
(* SpecScore is the scoring code of the two child stages by itself, for    *)
(* rubrics of two criteria and raw-score maps that may lack criteria.      *)
(* SpecTwice is the pipeline of succeeding child stages in which BullMQ    *)
(* delivers one completed child task a second time (at-least-once).        *)
(***************************************************************************)
EXTENDS Integers, Sequences, FiniteSets, TLC

VARIABLES
    job,            \* the Job row: Null or Some([status |-> ...])
    result,         \* the EvaluationResult row: Null or Some(record)
    initPc,         \* position of initializeJob
    task,           \* the three BullMQ tasks of the flow
    failedHandler,  \* position of ProjectEvaluationProcessor.onFailed
    response,       \* what the last getJobStatus call returned
    llm,            \* one invocation of generateObjectWithRetry / generateTextWithRetry
    scoring,        \* one run of a stage's scoring code on a rubric and a raw-score map
    redelivered     \* Null, or the rows as they were when a completed child was delivered again

vars == <<job, result, initPc, task, failedHandler, response, llm, scoring, redelivered>>

pipelineVars == <<job, result, initPc, task, failedHandler, response>>

----------------------------------------------------------------------------
(* Nullable values: a column that is NULL is the empty tuple.              *)

Null == <<>>
Some(v) == <<v>>
Val(x) == x[1]

\* JavaScript truthiness of a nullable number, as tested by `!x` and `x &&`.
Truthy(x) == x # Null /\ Val(x) # 0

----------------------------------------------------------------------------
(* Rubrics and the structured output of the generation call.               *)

MinScore == 1
MaxScore == 5

Criterion(n, d, w) == [name |-> n, displayName |-> d, weight |-> w]

Rubric100 == << Criterion("crit_a", "Crit A", 1000) >>
Rubric97 == << Criterion("crit_a", "Crit A", 970) >>

\* The rubrics the rubric extraction may hand to a stage: one whose weights
\* sum to 100 and one whose weights do not.
RubricInputs == {Rubric100, Rubric97}

CriterionNames(rubric) == {rubric[i].name : i \in 1..Len(rubric)}

RECURSIVE SumWeights(_)
SumWeights(rubric) ==
    IF rubric = <<>> THEN 0 ELSE Head(rubric).weight + SumWeights(Tail(rubric))

Abs(x) == IF x < 0 THEN 0 - x ELSE x

\* Math.abs(totalWeight - 100) > 0.1, in tenths of a percent.
WeightsMisconfiguredLoose(rubric) == Abs(SumWeights(rubric) - 1000) > 100

WeightsMisconfigured(rubric) == Abs(SumWeights(rubric) - 1000) > 1

\* generateEvaluationSchema: every rubric criterion carries an integer score
\* in 1..5 and a reasoning; the object also carries a feedback text.
generateEvaluationSchema(rubric) ==
    [criteria : [CriterionNames(rubric) -> [score : MinScore..MaxScore, reasoning : {"reasoning"}]],
     feedback : {"feedback"}]

----------------------------------------------------------------------------
(* Rubric scoring, as the forEach loops of evaluateCv / evaluateProject.   *)

\* Math.round(n / d) for n >= 0, d > 0 (halves round up).
RoundDiv(n, d) == (2 * n + d) \div (2 * d)

RECURSIVE ScoreLoop(_, _, _)
\* acc = [weightedSum (thousandths), totalWeight (tenths), enriched]
ScoreLoop(rubric, raw, acc) ==
    IF rubric = <<>> THEN acc
    ELSE LET criterion == Head(rubric)
         IN IF criterion.name \in DOMAIN raw
            THEN LET criterionResult == raw[criterion.name]
                     \* ((score - 1) / 4) * 100 * (weight / 100), in thousandths
                     contribution == (criterionResult.score - 1) * 25 * criterion.weight
                 IN ScoreLoop(Tail(rubric), raw,
                      [weightedSum |-> acc.weightedSum + contribution,
                       totalWeight |-> acc.totalWeight + criterion.weight,
                       enriched |-> acc.enriched @@
                          (criterion.name :> [score |-> criterionResult.score,
                                              reasoning |-> criterionResult.reasoning,
                                              weight |-> criterion.weight,
                                              displayName |-> criterion.displayName])])
            ELSE ScoreLoop(Tail(rubric), raw, acc)

EmptyAcc == [weightedSum |-> 0, totalWeight |-> 0, enriched |-> <<>>]

\* totalWeight > 0 ? Math.round(weightedSum * 100) / 100 : 0, in hundredths,
\* and the enriched criteria map.
ScoreKeepingRaw(rubric, raw) ==
    LET acc == ScoreLoop(rubric, raw, EmptyAcc)
    IN [weighted_score |-> IF acc.totalWeight > 0 THEN RoundDiv(acc.weightedSum, 10) ELSE 0,
        enriched |-> acc.enriched @@
            [n \in DOMAIN raw |-> [score |-> raw[n].score, reasoning |-> raw[n].reasoning,
                                   weight |-> 0, displayName |-> n]]]

ScoreRenormalizing(rubric, raw) ==
    LET acc == ScoreLoop(rubric, raw, EmptyAcc)
    IN [weighted_score |-> IF acc.totalWeight > 0
                           THEN RoundDiv(100 * acc.weightedSum, acc.totalWeight) ELSE 0,
        enriched |-> acc.enriched]

ScoreTruncating(rubric, raw) ==
    LET acc == ScoreLoop(rubric, raw, EmptyAcc)
    IN [weighted_score |-> IF acc.totalWeight > 0 THEN acc.weightedSum \div 10 ELSE 0,
        enriched |-> acc.enriched]

Score(rubric, raw) ==
    LET acc == ScoreLoop(rubric, raw, EmptyAcc)
    IN [weighted_score |-> IF acc.totalWeight > 0 THEN RoundDiv(acc.weightedSum, 10) ELSE 0,
        enriched |-> acc.enriched]

\* Math.round((weighted_score / 100) * 100) / 100, in hundredths.
CvMatchRate(weighted_score) == RoundDiv(weighted_score, 100)

\* Math.round(((weighted_score / 100) * 4 + 1) * 10) / 10, in tenths.
ProjectScoreTruncating(weighted_score) == ((4 * weighted_score) \div 1000) + 10

ProjectScore(weighted_score) == RoundDiv(4 * weighted_score, 1000) + 10

----------------------------------------------------------------------------
(* The rows.                                                               *)

NewJob == [status |-> "QUEUED"]

NewResult ==
    [cvMatchRate |-> Null, cvFeedback |-> Null, cvCriteria |-> Null,
     projectScore |-> Null, projectFeedback |-> Null, projectCriteria |-> Null,
     overallSummary |-> Null, error |-> Null,
     currentStage |-> Some("queued"), completedAt |-> Null]

\* prisma update: the named columns take the new values, the others stay.
UpdateIncrementing(row, data) ==
    [f \in DOMAIN row |->
        IF f \notin DOMAIN data THEN row[f]
        ELSE IF f \in {"cvMatchRate", "projectScore"} /\ row[f] # Null /\ data[f] # Null
             THEN Some(Val(row[f]) + Val(data[f]))
             ELSE data[f]]

UpdateReplacing(row, data) ==
    [f \in DOMAIN row |-> IF f \in DOMAIN data THEN data[f] ELSE Null]

Update(row, data) ==
    [f \in DOMAIN row |-> IF f \in DOMAIN data THEN data[f] ELSE row[f]]

----------------------------------------------------------------------------
(* The flow handed to BullMQ by initializeJob, and BullMQ's handling of    *)
(* it: a child is retried until JOB_OPTIONS.attempts executions have       *)
(* failed, the parent waits for its children, and a worker emits 'failed'  *)
(* for every execution that throws.                                        *)

Tasks == {"cv", "project", "overall"}

\* children: [...] of the flow; the parent is the overall-scoring task.
FlowChildrenCvOnly == {"cv"}
FlowChildren == {"cv", "project"}

JobAttempts == 3

\* JOB_OPTIONS.attempts for the children; the parent is added without opts
\* and is executed once.
Attempts(t) == IF t \in {"cv", "project"} THEN JobAttempts ELSE 1

\* rubric is the local of the running stage: <<>> until the rubric is loaded.
NoTask ==
    [state |-> "none", attemptsMade |-> 0, pc |-> "-", failedReason |-> "-", rubric |-> <<>>]

Enqueued(t) ==
    [NoTask EXCEPT !.state = IF t = "overall" THEN "waiting-children" ELSE "waiting"]

\* The parent becomes eligible once every child of the flow has completed.
\* A retry of the project task is delayed by JOB_OPTIONS.backoff (5000 ms,
\* doubling); the two writes of the failure handler started by the previous
\* execution land within that delay.
DispatchableWhenChildrenFinished(t) ==
    /\ task[t].state \in {"waiting", "delayed", "waiting-children"}
    /\ t = "overall" => \A c \in FlowChildren : task[c].state \in {"completed", "failed"}
    /\ t = "project" => failedHandler = "idle"

Dispatchable(t) ==
    /\ task[t].state \in {"waiting", "delayed", "waiting-children"}
    /\ t = "overall" => \A c \in FlowChildren : task[c].state = "completed"
    /\ t = "project" => failedHandler = "idle"

\* The worker takes the task and calls process().
Dispatch(t) ==
    /\ Dispatchable(t)
    /\ task' = [task EXCEPT ![t].state = "active",
                            ![t].pc = IF t = "overall" THEN "start" ELSE "load"]
    /\ UNCHANGED <<llm, scoring, redelivered, job, result, initPc, failedHandler, response>>

\* process() threw: the execution is counted, the task is delayed for a
\* retry while attempts remain and failed otherwise, and the worker's
\* 'failed' listeners are called (only the project one does anything).
AttemptFailed(t, reason) ==
    LET made == task[t].attemptsMade + 1
    IN /\ task' = [task EXCEPT ![t] =
                      [state |-> IF made < Attempts(t) THEN "delayed" ELSE "failed",
                       attemptsMade |-> made, pc |-> "-", failedReason |-> reason,
                       rubric |-> <<>>]]
       /\ failedHandler' = IF t = "project" THEN "invoked" ELSE failedHandler

\* process() returned.
AttemptCompleted(t) ==
    [task EXCEPT ![t].state = "completed",
                 ![t].attemptsMade = task[t].attemptsMade + 1,
                 ![t].pc = "-",
                 ![t].rubric = <<>>]

At(t, pc) == task[t].state = "active" /\ task[t].pc = pc

\* At-least-once delivery: a child task that has completed is handed to its
\* processor once more (a stalled job is moved back to wait by BullMQ).  The
\* rows and the other tasks are noted as they are at that moment.
Redeliver(t) ==
    /\ t \in FlowChildren
    /\ redelivered = Null
    /\ task[t].state = "completed"
    /\ task' = [task EXCEPT ![t].state = "active", ![t].pc = "load"]
    /\ redelivered' = Some([t |-> t, job |-> job, result |-> result,
                            others |-> [u \in Tasks \ {t} |-> task[u]]])
    /\ UNCHANGED <<llm, scoring, job, result, initPc, failedHandler, response>>

----------------------------------------------------------------------------
(* initializeJob: three awaited calls, none of them in a transaction.      *)

initializeJobCreateJob ==
    /\ initPc = "idle"
    /\ \/ job' = Some(NewJob) /\ initPc' = "jobCreated"
       \/ job' = job /\ initPc' = "raised"
    /\ UNCHANGED <<llm, scoring, redelivered, result, task, failedHandler, response>>

initializeJobCreateResult ==
    /\ initPc = "jobCreated"
    /\ \/ result' = Some(NewResult) /\ initPc' = "resultCreated"
       \/ result' = result /\ initPc' = "raised"
    /\ UNCHANGED <<llm, scoring, redelivered, job, task, failedHandler, response>>

initializeJobAddFlow ==
    /\ initPc = "resultCreated"
    /\ \/ /\ task' = [t \in Tasks |->
                        IF t \in FlowChildren \cup {"overall"} THEN Enqueued(t) ELSE NoTask]
          /\ initPc' = "returned"
       \/ task' = task /\ initPc' = "raised"
    /\ UNCHANGED <<llm, scoring, redelivered, job, result, failedHandler, response>>

----------------------------------------------------------------------------
(* getJobStatus.                                                           *)

Undefined == Null

OrEmpty(x) == IF x = Null THEN "" ELSE Val(x)

getJobStatusNoStatusTest(j, r) ==
    IF j = Null THEN [thrown |-> "NotFoundException"]
    ELSE [id |-> "job",
          status |-> Val(j).status,
          result |->
            IF /\ r # Null
               /\ Truthy(Val(r).cvMatchRate)
               /\ Truthy(Val(r).projectScore)
            THEN Some([cv_match_rate |-> Val(Val(r).cvMatchRate),
                       cv_feedback |-> OrEmpty(Val(r).cvFeedback),
                       project_score |-> Val(Val(r).projectScore),
                       project_feedback |-> OrEmpty(Val(r).projectFeedback),
                       overall_summary |-> OrEmpty(Val(r).overallSummary)])
            ELSE Undefined,
          error |-> IF r # Null THEN Val(r).error ELSE Undefined]

getJobStatusNoOptionalChaining(j, r) ==
    IF j = Null THEN [thrown |-> "NotFoundException"]
    ELSE IF r = Null THEN [thrown |-> "TypeError"]
    ELSE [id |-> "job",
          status |-> Val(j).status,
          result |->
            IF /\ Val(j).status = "COMPLETED"
               /\ Truthy(Val(r).cvMatchRate)
               /\ Truthy(Val(r).projectScore)
            THEN Some([cv_match_rate |-> Val(Val(r).cvMatchRate),
                       cv_feedback |-> OrEmpty(Val(r).cvFeedback),
                       project_score |-> Val(Val(r).projectScore),
                       project_feedback |-> OrEmpty(Val(r).projectFeedback),
                       overall_summary |-> OrEmpty(Val(r).overallSummary)])
            ELSE Undefined,
          error |-> Val(r).error]

getJobStatus(j, r) ==
    IF j = Null THEN [thrown |-> "NotFoundException"]
    ELSE [id |-> "job",
          status |-> Val(j).status,
          result |->
            IF /\ Val(j).status = "COMPLETED"
               /\ r # Null
               /\ Truthy(Val(r).cvMatchRate)
               /\ Truthy(Val(r).projectScore)
            THEN Some([cv_match_rate |-> Val(Val(r).cvMatchRate),
                       cv_feedback |-> OrEmpty(Val(r).cvFeedback),
                       project_score |-> Val(Val(r).projectScore),
                       project_feedback |-> OrEmpty(Val(r).projectFeedback),
                       overall_summary |-> OrEmpty(Val(r).overallSummary)])
            ELSE Undefined,
          error |-> IF r # Null THEN Val(r).error ELSE Undefined]

GetJobStatus ==
    /\ response' = Some(getJobStatus(job, result))
    /\ UNCHANGED <<llm, scoring, redelivered, job, result, initPc, task, failedHandler>>

----------------------------------------------------------------------------
(* updateFailedJob, called by ProjectEvaluationProcessor.onFailed: two     *)
(* awaited updates.  CvEvaluationProcessor.onFailed and                    *)
(* OverallScoringProcessor.onFailed only log.                              *)

FailedDataRollingBack ==
    [error |-> Some("Evaluation process failed"), currentStage |-> Some("failed"),
     cvMatchRate |-> Null, cvFeedback |-> Null, cvCriteria |-> Null]

FailedData == [error |-> Some("Evaluation process failed"), currentStage |-> Some("failed")]

updateFailedJobStatus ==
    /\ failedHandler = "invoked"
    /\ job' = Some(Update(Val(job), [status |-> "FAILED"]))
    /\ failedHandler' = "jobUpdated"
    /\ UNCHANGED <<llm, scoring, redelivered, result, initPc, task, response>>

updateFailedJobResult ==
    /\ failedHandler = "jobUpdated"
    /\ result' = Some(Update(Val(result), FailedData))
    /\ failedHandler' = "idle"
    /\ UNCHANGED <<llm, scoring, redelivered, job, initPc, task, response>>

----------------------------------------------------------------------------
(* The child stages: evaluate() loads the file, then evaluateCv or         *)
(* evaluateProject runs.                                                   *)

\* loadFileContent throws (no file of that id, owner and kind, or no text).
loadFileContentRaisesAfterStageWrite(t) ==
    /\ t \in {"cv", "project"}
    /\ At(t, "load")
    /\ AttemptFailed(t, "NotFound")
    /\ result' = Some(Update(Val(result),
          [currentStage |-> Some(IF t = "cv" THEN "cv_processing" ELSE "project_processing")]))
    /\ UNCHANGED <<llm, scoring, redelivered, job, initPc, response>>

loadFileContentRaises(t) ==
    /\ t \in {"cv", "project"}
    /\ At(t, "load")
    /\ AttemptFailed(t, "NotFound")
    /\ UNCHANGED <<llm, scoring, redelivered, job, result, initPc, response>>

evaluateCvStartMarksProcessing ==
    /\ At("cv", "load")
    /\ result' = Some(Update(Val(result), [currentStage |-> Some("cv_processing")]))
    /\ job' = Some(Update(Val(job), [status |-> "PROCESSING"]))
    /\ task' = [task EXCEPT !["cv"].pc = "rubric"]
    /\ UNCHANGED <<llm, scoring, redelivered, initPc, failedHandler, response>>

evaluateCvStart ==
    /\ At("cv", "load")
    /\ result' = Some(Update(Val(result), [currentStage |-> Some("cv_processing")]))
    /\ task' = [task EXCEPT !["cv"].pc = "rubric"]
    /\ UNCHANGED <<llm, scoring, redelivered, job, initPc, failedHandler, response>>

\* getCvRubric throws on a rubric whose weights do not sum to 100.
evaluateCvRubricRaises ==
    /\ At("cv", "rubric")
    /\ \E rubric \in RubricInputs : WeightsMisconfigured(rubric)
    /\ AttemptFailed("cv", "config")
    /\ UNCHANGED <<llm, scoring, redelivered, job, result, initPc, response>>

\* getCvRubric returns the rubric; the job description, the schema and the
\* prompt follow, and generateObjectWithRetry is called.
evaluateCvGenerates ==
    /\ At("cv", "rubric")
    /\ \E rubric \in RubricInputs :
         /\ ~WeightsMisconfigured(rubric)
         /\ task' = [task EXCEPT !["cv"].pc = "generate", !["cv"].rubric = rubric]
    /\ UNCHANGED <<llm, scoring, redelivered, job, result, initPc, failedHandler, response>>

\* A retrieval call (before the generation call) or the generation call
\* throws.
evaluateCvRaises ==
    /\ At("cv", "rubric") \/ At("cv", "generate")
    /\ AttemptFailed("cv", "external")
    /\ UNCHANGED <<llm, scoring, redelivered, job, result, initPc, response>>

CvCompletedData(rubric, evaluationResult) ==
    LET scored == Score(rubric, evaluationResult.criteria)
    IN [cvMatchRate |-> Some(CvMatchRate(scored.weighted_score)),
        cvFeedback |-> Some(evaluationResult.feedback),
        cvCriteria |-> Some(scored.enriched),
        currentStage |-> Some("cv_completed")]

\* The generation call returns an object of the schema; it is scored and
\* persisted.
evaluateCvCompletes ==
    /\ At("cv", "generate")
    /\ \E evaluationResult \in generateEvaluationSchema(task["cv"].rubric) :
         result' = Some(Update(Val(result),
                                CvCompletedData(task["cv"].rubric, evaluationResult)))
    /\ task' = AttemptCompleted("cv")
    /\ UNCHANGED <<llm, scoring, redelivered, job, initPc, failedHandler, response>>

evaluateProjectStart ==
    /\ At("project", "load")
    /\ result' = Some(Update(Val(result), [currentStage |-> Some("project_processing")]))
    /\ task' = [task EXCEPT !["project"].pc = "rubric"]
    /\ UNCHANGED <<llm, scoring, redelivered, job, initPc, failedHandler, response>>

\* getProjectRubric returns the rubric (it only warns about weights that do
\* not sum to 100); the case study, the schema and the prompt follow, and
\* generateObjectWithRetry is called.
evaluateProjectGenerates ==
    /\ At("project", "rubric")
    /\ \E rubric \in RubricInputs :
         task' = [task EXCEPT !["project"].pc = "generate", !["project"].rubric = rubric]
    /\ UNCHANGED <<llm, scoring, redelivered, job, result, initPc, failedHandler, response>>

\* A retrieval call (before the generation call) or the generation call
\* throws.
evaluateProjectRaises ==
    /\ At("project", "rubric") \/ At("project", "generate")
    /\ AttemptFailed("project", "external")
    /\ UNCHANGED <<llm, scoring, redelivered, job, result, initPc, response>>

ProjectCompletedData(rubric, evaluationResult) ==
    LET scored == Score(rubric, evaluationResult.criteria)
    IN [projectScore |-> Some(ProjectScore(scored.weighted_score)),
        projectFeedback |-> Some(evaluationResult.feedback),
        projectCriteria |-> Some(scored.enriched),
        currentStage |-> Some("project_completed")]

evaluateProjectCompletesMarksCompleted ==
    /\ At("project", "generate")
    /\ \E evaluationResult \in generateEvaluationSchema(task["project"].rubric) :
         result' = Some(Update(Val(result),
                                ProjectCompletedData(task["project"].rubric, evaluationResult)))
    /\ job' = Some(Update(Val(job),
         [status |-> IF Val(result).cvMatchRate # Null THEN "COMPLETED" ELSE Val(job).status]))
    /\ task' = AttemptCompleted("project")
    /\ UNCHANGED <<llm, scoring, redelivered, initPc, failedHandler, response>>

evaluateProjectCompletes ==
    /\ At("project", "generate")
    /\ \E evaluationResult \in generateEvaluationSchema(task["project"].rubric) :
         result' = Some(Update(Val(result),
                                ProjectCompletedData(task["project"].rubric, evaluationResult)))
    /\ task' = AttemptCompleted("project")
    /\ UNCHANGED <<llm, scoring, redelivered, job, initPc, failedHandler, response>>

----------------------------------------------------------------------------
(* evaluateCandidate, the overall-scoring stage.                           *)

evaluateCandidateStart ==
    /\ At("overall", "start")
    /\ result' = Some(Update(Val(result), [currentStage |-> Some("overall_processing")]))
    /\ task' = [task EXCEPT !["overall"].pc = "read"]
    /\ UNCHANGED <<llm, scoring, redelivered, job, initPc, failedHandler, response>>

\* if (!result || !result.cvMatchRate || !result.projectScore) throw
NotCompleted(r) ==
    \/ r = Null
    \/ ~Truthy(Val(r).cvMatchRate)
    \/ ~Truthy(Val(r).projectScore)

evaluateCandidateRead ==
    /\ At("overall", "read")
    /\ IF NotCompleted(result)
       THEN AttemptFailed("overall", "CV or Project evaluation not completed")
       ELSE /\ task' = [task EXCEPT !["overall"].pc = "generate"]
            /\ failedHandler' = failedHandler
    /\ UNCHANGED <<llm, scoring, redelivered, job, result, initPc, response>>

\* generateTextWithRetry throws.
evaluateCandidateRaises ==
    /\ At("overall", "generate")
    /\ AttemptFailed("overall", "external")
    /\ UNCHANGED <<llm, scoring, redelivered, job, result, initPc, response>>

\* The texts the generation call may return.
Summaries == {"", "summary"}

CompletedDataClearing(overall_summary) ==
    [overallSummary |-> Some(overall_summary),
     currentStage |-> Some("completed"),
     completedAt |-> Some("now"),
     cvMatchRate |-> Null]

CompletedDataNoTimestamp(overall_summary) ==
    [overallSummary |-> Some(overall_summary),
     currentStage |-> Some("completed")]

CompletedData(overall_summary) ==
    [overallSummary |-> Some(overall_summary),
     currentStage |-> Some("completed"),
     completedAt |-> Some("now")]

\* The $transaction of the two updates.
evaluateCandidateCommitResultOnly ==
    /\ At("overall", "generate")
    /\ \E overall_summary \in Summaries :
         result' = Some(Update(Val(result), CompletedData(overall_summary)))
    /\ task' = AttemptCompleted("overall")
    /\ UNCHANGED <<llm, scoring, redelivered, job, initPc, failedHandler, response>>

evaluateCandidateCommit ==
    /\ At("overall", "generate")
    /\ \E overall_summary \in Summaries :
         result' = Some(Update(Val(result), CompletedData(overall_summary)))
    /\ job' = Some(Update(Val(job), [status |-> "COMPLETED"]))
    /\ task' = AttemptCompleted("overall")
    /\ UNCHANGED <<llm, scoring, redelivered, initPc, failedHandler, response>>

----------------------------------------------------------------------------
(* The resilient invocation layer (llm.util.ts).  A thrown value is        *)
(* [kind, isError, status, code, message]; status and code are JavaScript  *)
(* values carrying their type, since the code tests them with === and      *)
(* typeof.                                                                 *)

Undef == [type |-> "undefined"]
Num(n) == [type |-> "number", value |-> n]
Str(x) == [type |-> "string", value |-> x]

IsNum(v) == v.type = "number"
IsStr(v, x) == v.type = "string" /\ v.value = x

\* A thrown object, and thrown values that are no objects.
ErrorObject(isError, status, code) ==
    [kind |-> "object", isError |-> isError, status |-> status, code |-> code,
     message |-> "failure"]
NonObject(kind) ==
    [kind |-> kind, isError |-> FALSE, status |-> Undef, code |-> Undef, message |-> ""]

\* let lastError: Error | undefined
NoError == NonObject("undefined")

\* The statuses and codes a thrown object is tried with.
StatusInputs ==
    {Undef, Num(400), Num(404), Num(429), Num(499), Num(500), Num(503), Num(599),
     Num(600), Str("429"), Str("500")}
CodeInputs ==
    {Undef, Str("ETIMEDOUT"), Str("ESOCKETTIMEDOUT"), Str("ECONNRESET"),
     Str("ECONNREFUSED"), Str("EHOSTUNREACH"), Str("ENETUNREACH"), Str("ENOTFOUND"),
     Str("GETADDRINFO"), Str("EPIPE"), Num(429)}

ErrorInputs ==
    {ErrorObject(b, st, c) : b \in BOOLEAN, st \in StatusInputs, c \in CodeInputs}
        \cup {NonObject("string"), NonObject("null")}

isRetryableErrorNoUpperBound(error) ==
    IF error.kind # "object" THEN FALSE
    ELSE IF IsNum(error.status) /\ error.status.value = 429 THEN TRUE
    ELSE IF IsStr(error.code, "ETIMEDOUT") \/ IsStr(error.code, "ESOCKETTIMEDOUT") THEN TRUE
    ELSE IF IsNum(error.status) /\ error.status.value >= 500 THEN TRUE
    ELSE IF \/ IsStr(error.code, "ECONNRESET")
            \/ IsStr(error.code, "ECONNREFUSED")
            \/ IsStr(error.code, "EHOSTUNREACH")
            \/ IsStr(error.code, "ENETUNREACH") THEN TRUE
    ELSE IF IsStr(error.code, "ENOTFOUND") \/ IsStr(error.code, "GETADDRINFO") THEN TRUE
    ELSE FALSE

isRetryableError(error) ==
    IF error.kind # "object" THEN FALSE
    ELSE IF IsNum(error.status) /\ error.status.value = 429 THEN TRUE
    ELSE IF IsStr(error.code, "ETIMEDOUT") \/ IsStr(error.code, "ESOCKETTIMEDOUT") THEN TRUE
    ELSE IF IsNum(error.status) /\ error.status.value >= 500 /\ error.status.value < 600
         THEN TRUE
    ELSE IF \/ IsStr(error.code, "ECONNRESET")
            \/ IsStr(error.code, "ECONNREFUSED")
            \/ IsStr(error.code, "EHOSTUNREACH")
            \/ IsStr(error.code, "ENETUNREACH") THEN TRUE
    ELSE IF IsStr(error.code, "ENOTFOUND") \/ IsStr(error.code, "GETADDRINFO") THEN TRUE
    ELSE FALSE

\* withTimeout: the timer rejects with new Error(message).
TimeoutError(operation) ==
    [kind |-> "object", isError |-> TRUE, status |-> Undef, code |-> Undef,
     message |-> IF operation = "generateObject" THEN "generateObject timeout"
                 ELSE "generateText timeout"]

DefaultMaxRetries == 3

\* The largest maxRetries an invocation is configured with.
MaxRetriesInput == 4

DefaultInitialRetryDelayMs == 1000
DefaultMaxRetryDelayMs == 30000

\* The delays an invocation is configured with, in ms: the defaults, and
\* an initial delay whose second doubling passes the cap.
DelayInputs ==
    {[initialRetryDelayMs |-> DefaultInitialRetryDelayMs, maxRetryDelayMs |-> DefaultMaxRetryDelayMs],
     [initialRetryDelayMs |-> 16000, maxRetryDelayMs |-> DefaultMaxRetryDelayMs]}

\* What Math.random() returns, in tenths: a number of [0, 1).
RandomDraws == {0, 5, 9}

RECURSIVE Pow2(_)
Pow2(n) == IF n = 0 THEN 1 ELSE 2 * Pow2(n - 1)

Min(a, b) == IF a < b THEN a ELSE b
Max(a, b) == IF a > b THEN a ELSE b

\* The delay in hundredths of a millisecond, for the draw `random` of
\* Math.random(): jitter = cappedDelay * 0.1 * (random - 0.5).
calculateBackoffDelay(attempt, config, random) ==
    LET exponentialDelay == config.initialRetryDelayMs * Pow2(attempt)
        cappedDelay == Min(exponentialDelay, config.maxRetryDelayMs)
        jitter == cappedDelay * (random - 5)
    IN Max(cappedDelay * 100 + jitter, 0)

Operations == {"generateObject", "generateText"}

LlmIdle ==
    [pc |-> "idle", operation |-> "-", maxRetries |-> 0, attempt |-> 0,
     calls |-> 0, sleeps |-> 0, lastError |-> NoError, retryable |-> <<>>,
     timedOut |-> FALSE, thrown |-> Null, value |-> Null,
     initialRetryDelayMs |-> DefaultInitialRetryDelayMs,
     maxRetryDelayMs |-> DefaultMaxRetryDelayMs,
     random |-> Null, delay |-> Null]

\* for (let attempt = 0; attempt < finalConfig.maxRetries; attempt++)
LoopRuns(attempt, maxRetries) == attempt < maxRetries

\* if (attempt >= finalConfig.maxRetries - 1 || !isRetryable) break;
BreaksAfterSleepingOnLast(attempt, maxRetries, isRetryable) ==
    attempt >= maxRetries \/ ~isRetryable
BreaksOnLastOnly(attempt, maxRetries, isRetryable) ==
    attempt >= maxRetries - 1
Breaks(attempt, maxRetries, isRetryable) ==
    attempt >= maxRetries - 1 \/ ~isRetryable

\* throw new LLMError(message, isRetryable, statusCode, originalError)
LLMError(lastError) ==
    [name |-> "LLMError",
     isRetryable |-> isRetryableError(lastError),
     statusCode |-> IF IsNum(lastError.status) THEN lastError.status ELSE Undef,
     originalError |-> IF lastError.isError THEN lastError ELSE NoError]

\* The function is called; with maxRetries = 0 the loop body never runs.
Invoke ==
    /\ llm.pc = "idle"
    /\ \E operation \in Operations, maxRetries \in 0..MaxRetriesInput, config \in DelayInputs :
         llm' = [LlmIdle EXCEPT
                   !.operation = operation,
                   !.maxRetries = maxRetries,
                   !.initialRetryDelayMs = config.initialRetryDelayMs,
                   !.maxRetryDelayMs = config.maxRetryDelayMs,
                   !.pc = IF LoopRuns(0, maxRetries) THEN "attempt" ELSE "raised",
                   !.thrown = IF LoopRuns(0, maxRetries) THEN Null
                              ELSE Some(LLMError(NoError))]
    /\ UNCHANGED <<pipelineVars, scoring, redelivered>>

\* The generation call settles first and returns.
AttemptReturns ==
    /\ llm.pc = "attempt"
    /\ llm' = [llm EXCEPT !.pc = "returned",
                          !.calls = llm.calls + 1,
                          !.value = Some(IF llm.operation = "generateObject"
                                         THEN "result.object" ELSE "result.text")]
    /\ UNCHANGED <<pipelineVars, scoring, redelivered>>

\* The catch block, for the value thrown by the attempt.
Caught(error, timedOut) ==
    LET isRetryable == isRetryableError(error)
        break == Breaks(llm.attempt, llm.maxRetries, isRetryable)
    IN llm' = [llm EXCEPT
                 !.calls = llm.calls + 1,
                 !.lastError = error,
                 !.timedOut = timedOut,
                 !.retryable = Append(llm.retryable, isRetryable),
                 !.pc = IF break THEN "raised" ELSE "sleep",
                 !.thrown = IF break THEN Some(LLMError(error)) ELSE Null]

\* The generation call settles first and throws.
AttemptThrows ==
    /\ llm.pc = "attempt"
    /\ \E error \in ErrorInputs : Caught(error, FALSE)
    /\ UNCHANGED <<pipelineVars, scoring, redelivered>>

\* The timer fires before the generation call settles.
AttemptTimesOut ==
    /\ llm.pc = "attempt"
    /\ Caught(TimeoutError(llm.operation), TRUE)
    /\ UNCHANGED <<pipelineVars, scoring, redelivered>>

\* delay = calculateBackoffDelay(attempt, finalConfig); await sleep(delay),
\* then attempt++ and the loop test.
Sleep ==
    /\ llm.pc = "sleep"
    /\ \E random \in RandomDraws :
       llm' = [llm EXCEPT
                 !.random = Some(random),
                 !.delay = Some(calculateBackoffDelay(llm.attempt, llm, random)),
                 !.sleeps = llm.sleeps + 1,
                 !.attempt = llm.attempt + 1,
                 !.pc = IF LoopRuns(llm.attempt + 1, llm.maxRetries) THEN "attempt"
                        ELSE "raised",
                 !.thrown = IF LoopRuns(llm.attempt + 1, llm.maxRetries) THEN Null
                            ELSE Some(LLMError(llm.lastError))]
    /\ UNCHANGED <<pipelineVars, scoring, redelivered>>

----------------------------------------------------------------------------
(* The scoring code of evaluateCv and evaluateProject (the forEach loop,   *)
(* the rounding and the scale conversion), run on a rubric and on the      *)
(* criteria map of a generation result.                                    *)

ScoringIdle ==
    [pc |-> "idle", rubric |-> <<>>, criteria |-> <<>>, data |-> Null, returned |-> Null]

\* return { weighted_score, criteria: enrichedCriteria, feedback }
EvalResult(rubric, evaluationResult) ==
    LET scored == Score(rubric, evaluationResult.criteria)
    IN [weighted_score |-> scored.weighted_score,
        criteria |-> scored.enriched,
        feedback |-> evaluationResult.feedback]

Rubric2(w1, w2) == << Criterion("crit_a", "Crit A", w1), Criterion("crit_b", "Crit B", w2) >>

\* Weights in tenths of a percent: 60/40, 33.3/66.7, 0/100, 60/50, 50/47,
\* 100/100 and 0/0.
ScoringRubrics ==
    {Rubric2(600, 400), Rubric2(333, 667), Rubric2(0, 1000), Rubric2(600, 500),
     Rubric2(500, 470), Rubric2(1000, 1000), Rubric2(0, 0)}

\* A criteria map with a score for some of the rubric's criteria and,
\* possibly, for a name that is no criterion of the rubric.
RawMaps(rubric) ==
    UNION {[present -> [score : MinScore..MaxScore, reasoning : {"reasoning"}]] :
             present \in SUBSET (CriterionNames(rubric) \cup {"crit_x"})}

ScoringInputs ==
    {[ScoringIdle EXCEPT !.pc = "input", !.rubric = rubric, !.criteria = criteria] :
        rubric \in ScoringRubrics, criteria \in UNION {RawMaps(r) : r \in ScoringRubrics}}

\* The scoring code of evaluateCv, on a rubric getCvRubric returns.
ScoreCv ==
    /\ scoring.pc = "input"
    /\ ~WeightsMisconfigured(scoring.rubric)
    /\ scoring' = [scoring EXCEPT
                     !.pc = "cv",
                     !.data = Some(CvCompletedData(scoring.rubric,
                                 [criteria |-> scoring.criteria, feedback |-> "feedback"])),
                     !.returned = Some(EvalResult(scoring.rubric,
                                 [criteria |-> scoring.criteria, feedback |-> "feedback"]))]
    /\ UNCHANGED <<pipelineVars, llm, redelivered>>

\* The scoring code of evaluateProject, on a rubric getProjectRubric returns.
ScoreProject ==
    /\ scoring.pc = "input"
    /\ scoring' = [scoring EXCEPT
                     !.pc = "project",
                     !.data = Some(ProjectCompletedData(scoring.rubric,
                                 [criteria |-> scoring.criteria, feedback |-> "feedback"])),
                     !.returned = Some(EvalResult(scoring.rubric,
                                 [criteria |-> scoring.criteria, feedback |-> "feedback"]))]
    /\ UNCHANGED <<pipelineVars, llm, redelivered>>

----------------------------------------------------------------------------

Init ==
    /\ job = Null
    /\ result = Null
    /\ initPc = "idle"
    /\ task = [t \in Tasks |-> NoTask]
    /\ failedHandler = "idle"
    /\ response = Null
    /\ llm = LlmIdle
    /\ scoring = ScoringIdle
    /\ redelivered = Null

Next ==
    \/ initializeJobCreateJob
    \/ initializeJobCreateResult
    \/ initializeJobAddFlow
    \/ GetJobStatus
    \/ \E t \in Tasks : Dispatch(t)
    \/ \E t \in {"cv", "project"} : loadFileContentRaises(t)
    \/ evaluateCvStart
    \/ evaluateCvRubricRaises
    \/ evaluateCvGenerates
    \/ evaluateCvRaises
    \/ evaluateCvCompletes
    \/ evaluateProjectStart
    \/ evaluateProjectGenerates
    \/ evaluateProjectRaises
    \/ evaluateProjectCompletes
    \/ updateFailedJobStatus
    \/ updateFailedJobResult
    \/ evaluateCandidateStart
    \/ evaluateCandidateRead
    \/ evaluateCandidateRaises
    \/ evaluateCandidateCommit

Spec == Init /\ [][Next]_vars

\* Every step of the pipeline that can be taken is taken in the end: the
\* workers and the awaited calls go on.  Only the status lookup is up to
\* the client.
Progress ==
    \/ initializeJobCreateJob
    \/ initializeJobCreateResult
    \/ initializeJobAddFlow
    \/ \E t \in Tasks : Dispatch(t)
    \/ \E t \in {"cv", "project"} : loadFileContentRaises(t)
    \/ evaluateCvStart
    \/ evaluateCvRubricRaises
    \/ evaluateCvGenerates
    \/ evaluateCvRaises
    \/ evaluateCvCompletes
    \/ evaluateProjectStart
    \/ evaluateProjectGenerates
    \/ evaluateProjectRaises
    \/ evaluateProjectCompletes
    \/ updateFailedJobStatus
    \/ updateFailedJobResult
    \/ evaluateCandidateStart
    \/ evaluateCandidateRead
    \/ evaluateCandidateRaises
    \/ evaluateCandidateCommit

FairSpec == Init /\ [][Next]_vars /\ WF_vars(Progress)

InitLLM == Init

NextLLM ==
    \/ Invoke
    \/ AttemptReturns
    \/ AttemptThrows
    \/ AttemptTimesOut
    \/ Sleep

SpecLLM == InitLLM /\ [][NextLLM]_vars

InitScore ==
    /\ job = Null
    /\ result = Null
    /\ initPc = "idle"
    /\ task = [t \in Tasks |-> NoTask]
    /\ failedHandler = "idle"
    /\ response = Null
    /\ llm = LlmIdle
    /\ scoring \in ScoringInputs
    /\ redelivered = Null

NextScore ==
    \/ ScoreCv
    \/ ScoreProject

SpecScore == InitScore /\ [][NextScore]_vars

InitTwice == Init

NextTwice ==
    \/ initializeJobCreateJob
    \/ initializeJobCreateResult
    \/ initializeJobAddFlow
    \/ \E t \in FlowChildren : Dispatch(t)
    \/ evaluateCvStart
    \/ evaluateCvGenerates
    \/ evaluateCvCompletes
    \/ evaluateProjectStart
    \/ evaluateProjectGenerates
    \/ evaluateProjectCompletes
    \/ \E t \in FlowChildren : Redeliver(t)

SpecTwice == InitTwice /\ [][NextTwice]_vars

----------------------------------------------------------------------------
(* What the claims speak of.                                               *)

JobStatus == IF job = Null THEN "none" ELSE Val(job).status
CurrentStage == IF result = Null THEN "none" ELSE Val(Val(result).currentStage)
Column(f) == IF result = Null THEN Null ELSE Val(result)[f]

\* Nothing of the pipeline can run any more.
Quiescent ==
    /\ failedHandler = "idle"
    /\ \A t \in Tasks : task[t].state # "active" /\ ~Dispatchable(t)

Exhausted(t) == task[t].state = "failed"

\* C1: once the status of the job is COMPLETED or FAILED no step changes it
\* (in particular it never goes from FAILED to COMPLETED).
C1_StatusNeverLeavesTerminal ==
    [][(JobStatus \in {"COMPLETED", "FAILED"}) => (JobStatus' = JobStatus)]_vars

\* C2: when a child task (either one) has failed on its last attempt and the
\* pipeline has come to rest, the job is FAILED, its stage is "failed" and
\* its error is set.
C2_ExhaustedChildFailsJob ==
    (Quiescent /\ (Exhausted("cv") \/ Exhausted("project")))
        => /\ JobStatus = "FAILED"
           /\ CurrentStage = "failed"
           /\ Column("error") # Null

\* C3: the job is FAILED (stage "failed", error set) only when one of its
\* tasks has exhausted its attempts.
C3_FailedOnlyWhenExhausted ==
    (JobStatus = "FAILED" \/ CurrentStage = "failed" \/ Column("error") # Null)
        => \E t \in Tasks : Exhausted(t)

\* C4: the overall-scoring task has been handed to its processor only if
\* both the cv task and the project task have completed.
C4_OverallAfterBothChildren ==
    task["overall"].state \in {"active", "completed", "failed"}
        => task["cv"].state = "completed" /\ task["project"].state = "completed"

C4_Witness ==
    /\ At("overall", "start")
    /\ task["cv"].state = "completed"
    /\ task["project"].state = "completed"

\* C5: evaluateCandidate raises 'CV or Project evaluation not completed'
\* only when cvMatchRate or projectScore is still null.
C5_NotCompletedOnlyWhenNull ==
    task["overall"].failedReason = "CV or Project evaluation not completed"
        => Column("cvMatchRate") = Null \/ Column("projectScore") = Null

C7_SummaryNeedsBothScores ==
    Column("overallSummary") # Null
        => Column("cvMatchRate") # Null /\ Column("projectScore") # Null

C7_Witness ==
    /\ Column("overallSummary") # Null
    /\ Column("cvMatchRate") # Null
    /\ task["overall"].state = "completed"

\* C8: there is never a Job row without its EvaluationResult row.
C8_JobRowHasResultRow == job # Null => result # Null

C10_ResultIffCompletedWithScores ==
    job # Null =>
        (getJobStatus(job, result).result # Undefined
            <=> /\ JobStatus = "COMPLETED"
                /\ Column("cvMatchRate") # Null
                /\ Column("projectScore") # Null)

C10_Witness ==
    /\ response # Null
    /\ "result" \in DOMAIN Val(response)
    /\ Val(response).result # Undefined
    /\ Val(response) = getJobStatus(job, result)

\* C11: whenever the status is FAILED, getJobStatus returns a non-empty
\* error string and no result.
C11_FailedShowsErrorAndNoResult ==
    JobStatus = "FAILED" =>
        /\ getJobStatus(job, result).error # Undefined
        /\ Val(getJobStatus(job, result).error) # ""
        /\ getJobStatus(job, result).result = Undefined

\* The project stage has neither succeeded nor exhausted its attempts.
ProjectInProgress == task["project"].state \in {"waiting", "active", "delayed"}

\* C12: while the CV stage has completed and the Project stage is still in
\* progress, getJobStatus returns a status other than COMPLETED, no result
\* and no error.
C12_CvDoneProjectRunningShowsNothing ==
    (task["cv"].state = "completed" /\ ProjectInProgress) =>
        /\ getJobStatus(job, result).status # "COMPLETED"
        /\ getJobStatus(job, result).result = Undefined
        /\ getJobStatus(job, result).error = Undefined

\* C13: once a child task has exhausted its attempts the overall-scoring
\* task is never executed and overallSummary stays null (an exhausted task
\* stays exhausted, so this covers every later state).
C13_ExhaustedChildBlocksOverall ==
    (Exhausted("cv") \/ Exhausted("project")) =>
        /\ task["overall"].state = "waiting-children"
        /\ task["overall"].attemptsMade = 0
        /\ Column("overallSummary") = Null

C13_Witness ==
    /\ Exhausted("project")
    /\ task["cv"].state = "completed"
    /\ Quiescent

\* The columns updateFailedJob has no business with.
KeptColumns ==
    {"cvMatchRate", "cvFeedback", "cvCriteria", "projectScore", "projectFeedback",
     "projectCriteria", "overallSummary", "completedAt"}

\* C14: a step of updateFailedJob leaves cvMatchRate, cvFeedback, cvCriteria,
\* projectScore, projectFeedback, projectCriteria, overallSummary and
\* completedAt as they were.
C14_UpdateFailedJobKeepsPartialResults ==
    [][(updateFailedJobStatus \/ updateFailedJobResult)
          => \A f \in KeptColumns : Val(result')[f] = Val(result)[f]]_vars

C14_Witness ==
    /\ Column("error") # Null
    /\ CurrentStage = "failed"
    /\ Column("cvMatchRate") # Null
    /\ failedHandler = "idle"

\* C15: once the status is COMPLETED or FAILED, what getJobStatus returns
\* no longer changes, whatever step is taken.
C15_TerminalStatusReadsAlike ==
    [][(JobStatus \in {"COMPLETED", "FAILED"})
          => (getJobStatus(job', result') = getJobStatus(job, result))]_vars

\* C16: getJobStatus raises exactly when there is no Job row; for an
\* existing job it returns, also while the EvaluationResult row is missing.
C16_NotFoundIffNoJob ==
    /\ "thrown" \in DOMAIN getJobStatus(job, result) <=> job = Null
    /\ job = Null => getJobStatus(job, result).thrown = "NotFoundException"

C16_Witness ==
    /\ job # Null
    /\ result = Null
    /\ response = Some(getJobStatus(job, result))
    /\ "status" \in DOMAIN Val(response)

----------------------------------------------------------------------------
(* The invocation layer's claims, under SpecLLM.                           *)

\* Every failed attempt so far was classified retryable.
AllRetryable == \A i \in 1..Len(llm.retryable) : llm.retryable[i]

\* C17: the generation call is never made more than maxRetries times, one
\* sleep lies between two consecutive attempts, and an invocation whose
\* attempts all fail with a retryable error raises after exactly maxRetries
\* calls and maxRetries - 1 sleeps (none after the last attempt).
C17_RetryableFailuresUseAllAttempts ==
    /\ llm.calls <= llm.maxRetries
    /\ llm.sleeps = llm.attempt
    /\ llm.calls \in {llm.sleeps, llm.sleeps + 1}
    /\ (llm.pc # "idle" /\ AllRetryable /\ Len(llm.retryable) = llm.maxRetries)
          => llm.pc = "raised"
    /\ (llm.pc = "raised" /\ AllRetryable) =>
          /\ llm.calls = llm.maxRetries
          /\ llm.sleeps = IF llm.maxRetries = 0 THEN 0 ELSE llm.maxRetries - 1

C17_Witness ==
    /\ llm.pc = "raised"
    /\ AllRetryable
    /\ llm.maxRetries = DefaultMaxRetries
    /\ llm.calls = DefaultMaxRetries
    /\ llm.sleeps = DefaultMaxRetries - 1

\* C18: a failure classified non-retryable is the last attempt of the
\* invocation: it has raised, with no call and no sleep after that failure.
C18_NonRetryableRaisesAtOnce ==
    \A i \in 1..Len(llm.retryable) :
        ~llm.retryable[i] =>
            /\ i = Len(llm.retryable)
            /\ llm.pc = "raised"
            /\ llm.thrown # Null
            /\ llm.calls = i
            /\ llm.sleeps = i - 1

C18_Witness ==
    /\ Len(llm.retryable) = 2
    /\ llm.retryable[1]
    /\ ~llm.retryable[2]
    /\ llm.maxRetries > 2
    /\ llm.pc = "raised"

\* C19: a failure that is the timer firing is classified retryable, and
\* while attempts remain the invocation does not raise after it.
C19_TimeoutIsRetried ==
    llm.timedOut =>
        /\ llm.retryable[Len(llm.retryable)]
        /\ llm.attempt < llm.maxRetries - 1 => llm.pc # "raised"

\* The codes for connection reset, connection refused, host unreachable,
\* network unreachable, DNS resolution failure and timeout.
TransientCodes ==
    {"ECONNRESET", "ECONNREFUSED", "EHOSTUNREACH", "ENETUNREACH",
     "ENOTFOUND", "GETADDRINFO", "ETIMEDOUT", "ESOCKETTIMEDOUT"}

ClaimedRetryable(error) ==
    /\ error.kind = "object"
    /\ \/ error.status = Num(429)
       \/ \E n \in 500..599 : error.status = Num(n)
       \/ \E c \in TransientCodes : error.code = Str(c)

\* C20: the classification of a caught error is true exactly for a status
\* 429, a numeric status in 500..599 or a code of the transient set; any
\* other thrown value is non-retryable.  The flag of the raised LLMError is
\* that classification.
C20_RetryableExactlyTransient ==
    Len(llm.retryable) > 0 =>
        /\ llm.retryable[Len(llm.retryable)] <=> ClaimedRetryable(llm.lastError)
        /\ llm.thrown # Null =>
              (Val(llm.thrown).isRetryable <=> ClaimedRetryable(llm.lastError))

C20_Witness ==
    /\ Len(llm.retryable) > 0
    /\ llm.lastError.status = Num(599)
    /\ llm.lastError.code = Undef
    /\ llm.retryable[Len(llm.retryable)]

\* min(initialRetryDelayMs * 2^n, maxRetryDelayMs), in ms.
ClaimedUnjittered(n) ==
    IF llm.initialRetryDelayMs * Pow2(n) < llm.maxRetryDelayMs
    THEN llm.initialRetryDelayMs * Pow2(n) ELSE llm.maxRetryDelayMs

\* C21: the delay slept after attempt n lies within [0, maxRetryDelayMs]
\* for every jitter draw, and without jitter (the draw 0.5) it is
\* initialRetryDelayMs * 2^n, capped at maxRetryDelayMs.  (llm.attempt has
\* been incremented after the sleep; delays are in hundredths of a ms.)
C21_BackoffDelayWithinCap ==
    llm.delay # Null =>
        /\ Val(llm.delay) >= 0
        /\ Val(llm.delay) <= llm.maxRetryDelayMs * 100
        /\ Val(llm.random) = 5 => Val(llm.delay) = ClaimedUnjittered(llm.attempt - 1) * 100

----------------------------------------------------------------------------
(* The scoring claims, under SpecScore.                                    *)

RECURSIVE SumFn(_, _)
SumFn(f, S) ==
    IF S = {} THEN 0
    ELSE LET x == CHOOSE y \in S : TRUE IN f[x] + SumFn(f, S \ {x})

Scored == scoring.pc \in {"cv", "project"}
AllIdx == 1..Len(scoring.rubric)
PresentIdx == {i \in AllIdx : scoring.rubric[i].name \in DOMAIN scoring.criteria}
RawScore(i) == scoring.criteria[scoring.rubric[i].name].score

\* (score - 1) / 4 * 100, a whole number of percents.
Normalized(i) == (RawScore(i) - 1) * 25

\* The sum over the criteria S of normalized * weight, weight in tenths.
WeightedOver(S) == SumFn([i \in S |-> Normalized(i) * scoring.rubric[i].weight], S)
WeightOver(S) == SumFn([i \in S |-> scoring.rubric[i].weight], S)

\* C22: for a rubric whose weights sum to 100 and a raw-score map with a
\* score for each criterion, the weighted score the stage returns is the sum
\* of ((score - 1) / 4 * 100) * (weight / 100) rounded to 2 decimals; weights
\* 60/40 with scores 5 and 3 give 80.00.
C22_WeightedScoreIsWeightedAverage ==
    (Scored /\ SumWeights(scoring.rubric) = 1000 /\ PresentIdx = AllIdx) =>
        /\ Val(scoring.returned).weighted_score = RoundDiv(WeightedOver(AllIdx), 10)
        /\ (scoring.rubric = Rubric2(600, 400) /\ RawScore(1) = 5 /\ RawScore(2) = 3)
              => Val(scoring.returned).weighted_score = 8000

C22_Witness ==
    /\ scoring.pc = "cv"
    /\ scoring.rubric = Rubric2(600, 400)
    /\ PresentIdx = AllIdx
    /\ RawScore(1) = 5
    /\ RawScore(2) = 3
    /\ Val(scoring.returned).weighted_score = 8000

\* C23: for a raw-score map that lacks criteria of the rubric, the weighted
\* score is the weighted average of the present criteria over the total
\* weight of the present criteria (the missing ones count neither in the
\* numerator nor in the denominator, so they do not count as the lowest
\* score).
C23_MissingCriteriaLeaveTheAverage ==
    (Scored /\ PresentIdx # AllIdx /\ WeightOver(PresentIdx) > 0) =>
        Val(scoring.returned).weighted_score
            = RoundDiv(100 * WeightedOver(PresentIdx), WeightOver(PresentIdx))

\* C24: a persisted cvMatchRate lies in [0, 1] and a persisted projectScore
\* in [1.0, 5.0], for every rubric the stage accepts and every raw-score map
\* with scores in 1..5.
C24_PersistedScoresInRange ==
    /\ scoring.pc = "cv" =>
          Val(Val(scoring.data).cvMatchRate) >= 0 /\ Val(Val(scoring.data).cvMatchRate) <= 100
    /\ scoring.pc = "project" =>
          Val(Val(scoring.data).projectScore) >= 10 /\ Val(Val(scoring.data).projectScore) <= 50

----------------------------------------------------------------------------
(* The rubric checks of the two child stages, under Spec.                  *)

\* The weights sum to a value more than 0.1 away from 100.
OffHundred(weights) == weights < 999 \/ weights > 1001

\* The weights of a persisted criteria map, and its weighted sum in
\* thousandths, with the weights as they stand.
PersistedWeights(criteria) == SumFn([n \in DOMAIN criteria |-> criteria[n].weight], DOMAIN criteria)
PersistedSum(criteria) ==
    SumFn([n \in DOMAIN criteria |-> (criteria[n].score - 1) * 25 * criteria[n].weight],
          DOMAIN criteria)

\* C25: with a CV rubric whose weights are more than 0.1 off 100 the stage
\* never reaches the scoring generation call and never persists the CV
\* fields, and the step in which getCvRubric raises is taken before that
\* call and leaves the EvaluationResult row as it is.
C25_CvRubricOffHundredIsFatal ==
    /\ [](/\ At("cv", "generate") => ~OffHundred(SumWeights(task["cv"].rubric))
          /\ Column("cvCriteria") # Null =>
                ~OffHundred(PersistedWeights(Val(Column("cvCriteria"))))
          /\ Column("cvCriteria") = Null =>
                Column("cvMatchRate") = Null /\ Column("cvFeedback") = Null)
    /\ [][evaluateCvRubricRaises =>
            /\ At("cv", "rubric")
            /\ task'["cv"].failedReason = "config"
            /\ result' = result]_vars

C25_Witness ==
    /\ task["cv"].failedReason = "config"
    /\ task["cv"].state = "failed"
    /\ Column("cvMatchRate") = Null
    /\ Column("cvCriteria") = Null
    /\ CurrentStage = "cv_processing"

\* C26: a Project rubric whose weights are more than 0.1 off 100 does not
\* abort the stage (it never fails for its configuration): the stage makes
\* the generation call, and what it persists is project_completed with the
\* projectScore of the weights as loaded, not renormalized.
C26_ProjectRubricOffHundredProceeds ==
    /\ task["project"].failedReason # "config"
    /\ Column("projectCriteria") # Null =>
          /\ Column("projectScore") =
                Some(RoundDiv(4 * RoundDiv(PersistedSum(Val(Column("projectCriteria"))), 10), 1000) + 10)
          /\ Column("projectFeedback") # Null
    /\ CurrentStage = "project_completed" => Column("projectCriteria") # Null

C26_Witness ==
    /\ CurrentStage = "project_completed"
    /\ task["project"].state = "completed"
    /\ OffHundred(PersistedWeights(Val(Column("projectCriteria"))))
    /\ Column("projectScore") = Some(49)

----------------------------------------------------------------------------
(* Failures of the stages, under Spec and FairSpec.                        *)

Children == {"cv", "project"}

\* C27: a child task whose execution failed on an input error (the input
\* file is not found) is not executed again: it has failed after that single
\* execution.
C27_InputErrorIsNotRetried ==
    \A t \in Children :
        task[t].failedReason = "NotFound" =>
            task[t].state = "failed" /\ task[t].attemptsMade = 1

\* The columns each child stage writes, and whether the value a column
\* holds was written by that stage.
StageColumns(t) ==
    IF t = "cv" THEN {"cvMatchRate", "cvFeedback", "cvCriteria", "currentStage"}
    ELSE {"projectScore", "projectFeedback", "projectCriteria", "currentStage"}
StageValues(t) ==
    IF t = "cv" THEN {Some("cv_processing"), Some("cv_completed")}
    ELSE {Some("project_processing"), Some("project_completed")}
WrittenBy(t, f) ==
    /\ f \in StageColumns(t)
    /\ IF f = "currentStage" THEN Column(f) \in StageValues(t) ELSE Column(f) # Null
StageStep(t) ==
    IF t = "cv" THEN evaluateCvStart \/ evaluateCvCompletes
    ELSE evaluateProjectStart \/ evaluateProjectCompletes

\* C28: no write of the CV stage changes a column that holds a value written
\* by the Project stage, and no write of the Project stage changes a column
\* that holds a value written by the CV stage.
C28_StagesWriteDisjointColumns ==
    [][\A t, u \in Children :
          (t # u /\ StageStep(t)) =>
              \A f \in DOMAIN Val(result) :
                  WrittenBy(u, f) => Val(result')[f] = Val(result)[f]]_vars

\* C29: once the overall-scoring task has failed for good, the job is
\* FAILED in the end, with currentStage "failed" and an error.
C29_OverallFailureFailsJob ==
    Exhausted("overall") ~>
        (JobStatus = "FAILED" /\ CurrentStage = "failed" /\ Column("error") # Null)

\* C30: the step in which loadFileContent raises leaves the
\* EvaluationResult row as it is, and a child stage whose only execution so
\* far ended there has written none of its columns, currentStage included.
C30_LoadFailureWritesNothing ==
    /\ [](\A t \in Children :
            (task[t].failedReason = "NotFound" /\ task[t].attemptsMade = 1
                /\ task[t].state = "delayed")
            => \A f \in StageColumns(t) : ~WrittenBy(t, f))
    /\ [][\A t \in Children :
            loadFileContentRaises(t) =>
                (result' = result /\ task'[t].failedReason = "NotFound")]_vars

C30_Witness ==
    /\ task["cv"].failedReason = "NotFound"
    /\ task["cv"].attemptsMade = 1
    /\ task["cv"].state = "delayed"
    /\ result = Some(NewResult)

----------------------------------------------------------------------------
(* Who writes Job.status and currentStage, under Spec and FairSpec.        *)

\* A step of an execution of evaluateCv or evaluateProject, returning or
\* throwing.
ChildStageStep ==
    \/ \E t \in Children : loadFileContentRaises(t)
    \/ evaluateCvStart \/ evaluateCvRubricRaises \/ evaluateCvGenerates
    \/ evaluateCvRaises \/ evaluateCvCompletes
    \/ evaluateProjectStart \/ evaluateProjectGenerates
    \/ evaluateProjectRaises \/ evaluateProjectCompletes

\* C31: no step of evaluateCv or evaluateProject changes the Job row; the
\* status becomes COMPLETED only in a step of evaluateCandidate taken after
\* its generation call, which writes the summary with it.
C31_OnlyEvaluateCandidateCompletes ==
    [][/\ ChildStageStep => job' = job
       /\ (JobStatus # "COMPLETED" /\ JobStatus' = "COMPLETED") =>
             /\ At("overall", "generate")
             /\ task'["overall"].state = "completed"
             /\ Val(result').overallSummary # Null]_vars

C31_Witness ==
    /\ JobStatus = "COMPLETED"
    /\ task["overall"].state = "completed"
    /\ task["cv"].attemptsMade = 1
    /\ task["project"].attemptsMade = 1

\* C35: every job initializeJob has returned reaches the status COMPLETED
\* or FAILED in the end.
C35_EveryJobTerminates ==
    (initPc = "returned") ~> (JobStatus \in {"COMPLETED", "FAILED"})

\* No execution has failed so far.
NothingFailed == \A t \in Tasks : task[t].failedReason = "-"

C37_CompletedHasNoError ==
    /\ JobStatus = "COMPLETED" => Column("error") = Null
    /\ job # Null =>
          ~(/\ getJobStatus(job, result).result # Undefined
            /\ getJobStatus(job, result).error # Undefined)

\* currentStage is the "*_processing" of a stage that has completed.
BackInProcessing(stage) ==
    \/ stage = "cv_processing" /\ task["cv"].state = "completed"
    \/ stage = "project_processing" /\ task["project"].state = "completed"
    \/ stage = "overall_processing" /\ task["overall"].state = "completed"

\* C39: once currentStage is "completed" or "failed" no step changes it, and
\* no step sets it back to "queued" or to the "*_processing" of a stage that
\* has written its "*_completed".
C39_CurrentStageIsMonotonic ==
    [][result # Null =>
          /\ CurrentStage \in {"completed", "failed"} => CurrentStage' = CurrentStage
          /\ CurrentStage' # CurrentStage =>
                (CurrentStage' # "queued" /\ ~BackInProcessing(CurrentStage'))]_vars

----------------------------------------------------------------------------
(* What the invocation layer raises and returns, under SpecLLM.            *)

\* C32: a raised LLMError describes the error of the last attempt: its
\* isRetryable is that error's classification, its statusCode is that
\* error's status when it is a number (undefined otherwise) and its
\* originalError is that error; an invocation that has returned carries the
\* value of its last attempt, has raised nothing and is called no more.
C32_RaisedErrorDescribesLastFailure ==
    /\ (llm.pc = "raised" /\ llm.calls > 0) =>
          /\ Val(llm.thrown).isRetryable = llm.retryable[Len(llm.retryable)]
          /\ Val(llm.thrown).statusCode =
                (IF llm.lastError.status.type = "number" THEN llm.lastError.status ELSE Undef)
          /\ Val(llm.thrown).originalError = llm.lastError
    /\ llm.pc = "returned" =>
          /\ llm.value # Null
          /\ llm.thrown = Null
          /\ llm.calls = llm.attempt + 1
          /\ ~ENABLED NextLLM

----------------------------------------------------------------------------
(* The enriched criteria and the scale conversions, under SpecScore.       *)

\* The criteria map the stage persists.
PersistedCriteria ==
    IF scoring.pc = "cv" THEN Val(Val(scoring.data).cvCriteria)
    ELSE Val(Val(scoring.data).projectCriteria)

\* C33: the keys of the enriched criteria map (returned and persisted) are
\* the rubric criterion names that the raw result also has; an entry holds
\* the raw score and reasoning with the rubric criterion's weight and
\* display name; raw entries of other names are dropped.
C33_EnrichedCriteriaAreTheMatchedOnes ==
    Scored =>
        /\ PersistedCriteria = Val(scoring.returned).criteria
        /\ DOMAIN PersistedCriteria = CriterionNames(scoring.rubric) \cap DOMAIN scoring.criteria
        /\ \A i \in PresentIdx :
              PersistedCriteria[scoring.rubric[i].name] =
                  [score |-> scoring.criteria[scoring.rubric[i].name].score,
                   reasoning |-> scoring.criteria[scoring.rubric[i].name].reasoning,
                   weight |-> scoring.rubric[i].weight,
                   displayName |-> scoring.rubric[i].displayName]

C33_Witness ==
    /\ scoring.pc = "project"
    /\ DOMAIN scoring.criteria = {"crit_b", "crit_x"}
    /\ DOMAIN PersistedCriteria = {"crit_b"}
    /\ scoring.rubric = Rubric2(600, 500)

\* C34: the persisted cvMatchRate is the weighted score / 100 rounded to 2
\* decimals (the nearest hundredth, halves up) and the persisted
\* projectScore is (weighted score / 100 * 4 + 1) rounded to 1 decimal; when
\* no rubric criterion is matched the weighted score is 0, cvMatchRate is 0
\* and projectScore is 1.0.
C34_ScaleConversions ==
    Scored =>
        LET w == Val(scoring.returned).weighted_score
        IN /\ scoring.pc = "cv" =>
                LET c == Val(Val(scoring.data).cvMatchRate)
                IN /\ 100 * c - 50 <= w /\ w < 100 * c + 50
                   /\ PresentIdx = {} => c = 0
           /\ scoring.pc = "project" =>
                LET p == Val(Val(scoring.data).projectScore)
                IN /\ 1000 * (p - 10) - 500 <= 4 * w /\ 4 * w < 1000 * (p - 10) + 500
                   /\ PresentIdx = {} => p = 10
           /\ PresentIdx = {} => w = 0

C34_Witness ==
    /\ scoring.pc = "project"
    /\ PresentIdx = {}
    /\ Val(scoring.returned).weighted_score = 0
    /\ Val(scoring.data).projectScore = Some(10)
    /\ Val(scoring.data).currentStage = Some("project_completed")

----------------------------------------------------------------------------
(* The two child stages side by side, under Spec.                          *)

ScoreColumns(t) == StageColumns(t) \ {"currentStage"}

\* C38: whatever the interleaving of the two stages, once both have
\* completed the six score columns hold what each stage's own run gives (the
\* criteria and feedback of its generation result and the score of those
\* criteria), as when the stages run one after the other; no step of one
\* stage changes a score column of the other.
C38_StagesCommute ==
    /\ []((task["cv"].state = "completed" /\ task["project"].state = "completed") =>
            /\ Column("cvCriteria") # Null
            /\ Column("cvFeedback") = Some("feedback")
            /\ Column("cvMatchRate") =
                  Some(RoundDiv(RoundDiv(PersistedSum(Val(Column("cvCriteria"))), 10), 100))
            /\ Column("projectCriteria") # Null
            /\ Column("projectFeedback") = Some("feedback")
            /\ Column("projectScore") =
                  Some(RoundDiv(4 * RoundDiv(PersistedSum(Val(Column("projectCriteria"))), 10), 1000) + 10))
    /\ [][\A t, u \in Children :
            (t # u /\ StageStep(t)) =>
                \A f \in ScoreColumns(u) : Val(result')[f] = Val(result)[f]]_vars

\* Both orders of completion are reached.
C38_Witness ==
    /\ task["cv"].state = "completed"
    /\ task["project"].state = "completed"
    /\ CurrentStage = "cv_completed"
    /\ Column("projectScore") # Null

C38_WitnessProjectLast ==
    /\ task["cv"].state = "completed"
    /\ task["project"].state = "completed"
    /\ CurrentStage = "project_completed"
    /\ Column("cvMatchRate") # Null

----------------------------------------------------------------------------
(* A child stage executed twice, under SpecTwice.                          *)

StageCompletes(t) == IF t = "cv" THEN evaluateCvCompletes ELSE evaluateProjectCompletes

\* The columns that hold the generation output of stage t (the criteria
\* with their rubric weights, and the feedback).
OutputColumns(t) ==
    IF t = "cv" THEN {"cvCriteria", "cvFeedback"} ELSE {"projectCriteria", "projectFeedback"}

\* The rows noted at the second delivery of t are those its first execution
\* left: every stage write names its stage in currentStage, so no other
\* stage has written since t completed.
NotedAfterFirstExecution(t) ==
    Val(Val(redelivered).result).currentStage = Some(t \o "_completed")

\* The second execution of child t completes, with the rubric and the
\* generation output of the first, nothing else having run since the first
\* execution completed.
SecondExecutionCompletes(t) ==
    /\ redelivered # Null
    /\ Val(redelivered).t = t
    /\ NotedAfterFirstExecution(t)
    /\ StageCompletes(t)
    /\ \A u \in Tasks \ {t} : task[u] = Val(redelivered).others[u]
    /\ \A f \in OutputColumns(t) : Val(result')[f] = Val(Val(redelivered).result)[f]

\* C40: when a child stage is executed a second time with the same rubric
\* and generation output and nothing else runs in between, the
\* EvaluationResult and Job rows end as they were after the first execution.
C40_StageWritesAreIdempotent ==
    [][\A t \in Children :
          SecondExecutionCompletes(t) =>
              /\ result' = Val(redelivered).result
              /\ job' = Val(redelivered).job]_vars

C40_Witness ==
    /\ redelivered # Null
    /\ Val(redelivered).t = "cv"
    /\ task["cv"].state = "completed"
    /\ task["cv"].attemptsMade = 2
    /\ NotedAfterFirstExecution("cv")
    /\ task["project"] = Val(redelivered).others["project"]
    /\ Column("projectScore") # Null
    /\ Column("cvMatchRate") # Null
    /\ Val(Column("cvMatchRate")) > 0
    /\ result = Val(redelivered).result
====
